---- MODULE Spec2Model ----
(***************************************************************************)
(* src/c_ext/rms.c: vox_rms_int16 and vox_pcm_to_float32.                  *)
(*                                                                         *)
(* Each call is a small state machine (entry test, one loop iteration per  *)
(* step, return) run by a thread over a shared read-only sample buffer     *)
(* and a per-thread output buffer.  The arithmetic is the C arithmetic:    *)
(* IEEE 754 double and float, round to nearest, ties to even.              *)
(***************************************************************************)
EXTENDS Integers, Sequences, FiniteSets, TLC

(***************************************************************************)
(* Exact natural-number arithmetic.  The values of C doubles and floats    *)
(* need up to 106 bits (the radicand of a 53-bit square root), more than   *)
(* a model-checker integer holds, so a natural number is a little-endian   *)
(* sequence of 15-bit limbs with no leading zero limb; <<>> is zero.       *)
(***************************************************************************)
Base == 2^15

Max(a, b) == IF a >= b THEN a ELSE b
Min(a, b) == IF a <= b THEN a ELSE b
Abs(a) == IF a < 0 THEN 0 - a ELSE a

Cons(d, x) == IF x = <<>> /\ d = 0 THEN <<>> ELSE <<d>> \o x

RECURSIVE FromInt(_)
FromInt(k) == IF k = 0 THEN <<>> ELSE <<k % Base>> \o FromInt(k \div Base)

RECURSIVE ToInt(_)
ToInt(x) == IF x = <<>> THEN 0 ELSE Head(x) + Base * ToInt(Tail(x))

RECURSIVE AddC(_, _, _)
AddC(x, y, c) ==
  IF x = <<>> /\ y = <<>> THEN (IF c = 0 THEN <<>> ELSE <<c>>)
  ELSE LET a == IF x = <<>> THEN 0 ELSE Head(x)
           b == IF y = <<>> THEN 0 ELSE Head(y)
           s == a + b + c
       IN <<s % Base>> \o AddC(IF x = <<>> THEN x ELSE Tail(x),
                               IF y = <<>> THEN y ELSE Tail(y), s \div Base)
Add(x, y) == AddC(x, y, 0)

\* x - y - b for x >= y + b
RECURSIVE SubB(_, _, _)
SubB(x, y, b) ==
  IF x = <<>> THEN <<>>
  ELSE LET s == Head(x) - (IF y = <<>> THEN 0 ELSE Head(y)) - b
       IN Cons(s % Base, SubB(Tail(x), IF y = <<>> THEN y ELSE Tail(y),
                              IF s < 0 THEN 1 ELSE 0))
Sub(x, y) == SubB(x, y, 0)

\* x * d + c for a single limb d
RECURSIVE MulSmall(_, _, _)
MulSmall(x, d, c) ==
  IF x = <<>> THEN (IF c = 0 THEN <<>> ELSE <<c>>)
  ELSE LET p == Head(x) * d + c
       IN <<p % Base>> \o MulSmall(Tail(x), d, p \div Base)
Times(x, d) == IF d = 0 THEN <<>> ELSE MulSmall(x, d, 0)

RECURSIVE Mul(_, _)
Mul(x, y) ==
  IF y = <<>> \/ x = <<>> THEN <<>>
  ELSE Add(Times(x, Head(y)), Cons(0, Mul(x, Tail(y))))

RECURSIVE CmpFrom(_, _, _)
CmpFrom(x, y, j) ==
  IF j = 0 THEN 0
  ELSE IF x[j] < y[j] THEN -1
  ELSE IF x[j] > y[j] THEN 1
  ELSE CmpFrom(x, y, j - 1)
Cmp(x, y) ==
  IF Len(x) < Len(y) THEN -1
  ELSE IF Len(x) > Len(y) THEN 1
  ELSE CmpFrom(x, y, Len(x))
Leq(x, y) == Cmp(x, y) <= 0

Pow2(k) == [j \in 1..(k \div 15) |-> 0] \o <<2^(k % 15)>>

RECURSIVE SmallBits(_)
SmallBits(k) == IF k = 0 THEN 0 ELSE 1 + SmallBits(k \div 2)
BitLen(x) == IF x = <<>> THEN 0 ELSE 15 * (Len(x) - 1) + SmallBits(x[Len(x)])

\* the largest limb d, built from bits 14..b, with d * D <= R
RECURSIVE DivDigit(_, _, _)
DivDigit(D, R, b) ==
  IF b > 14 THEN 0
  ELSE LET d == DivDigit(D, R, b + 1)
           t == d + 2^b
       IN IF d < 0 THEN d ELSE IF Leq(MulSmall(D, t, 0), R) THEN t ELSE d

\* <<quotient, remainder>> of the number held in limbs j.. of N by D > 0
RECURSIVE DivFrom(_, _, _)
DivFrom(N, D, j) ==
  IF j > Len(N) THEN << <<>>, <<>> >>
  ELSE LET prev == DivFrom(N, D, j + 1)
           R == Cons(N[j], prev[2])
           d == DivDigit(D, R, 0)
       IN IF Len(prev) = 0 \/ Len(R) < 0 THEN prev
          ELSE << Cons(d, prev[1]), Sub(R, Times(D, d)) >>
DivMod(N, D) == DivFrom(N, D, 1)

\* the largest limb d, built from bits 14..b, with (r2 * Base + d) * d <= R
RECURSIVE SqrtDigit(_, _, _)
SqrtDigit(r2, R, b) ==
  IF b > 14 THEN 0
  ELSE LET d == SqrtDigit(r2, R, b + 1)
           t == d + 2^b
       IN IF d < 0 THEN d ELSE IF Leq(MulSmall(Cons(t, r2), t, 0), R) THEN t ELSE d

\* <<root, remainder>> of the number held in limb pairs j.. of N
RECURSIVE SqrtFrom(_, _, _)
SqrtFrom(N, j, pairs) ==
  IF j > pairs THEN << <<>>, <<>> >>
  ELSE LET prev == SqrtFrom(N, j + 1, pairs)
           hi == IF 2 * j <= Len(N) THEN N[2 * j] ELSE 0
           R == Cons(N[2 * j - 1], Cons(hi, prev[2]))
           r2 == Times(prev[1], 2)
           d == SqrtDigit(r2, R, 0)
       IN IF Len(prev) = 0 \/ Len(R) < 0 \/ Len(r2) < 0 THEN prev
          ELSE << Cons(d, prev[1]), Sub(R, Times(Cons(d, r2), d)) >>
SqrtRem(N) == SqrtFrom(N, 1, (Len(N) + 1) \div 2)

(***************************************************************************)
(* IEEE 754 binary floating point, round to nearest, ties to even.  A      *)
(* value is [neg, m, e] and denotes (-1)^neg * m * 2^e, where m has        *)
(* exactly p bits (p = 53 for double, 24 for float) or is zero.  Every     *)
(* value these routines produce is normal (magnitudes between 2^-31 and    *)
(* 2^62), so the exponent range plays no part.                             *)
(***************************************************************************)
FZero == [neg |-> FALSE, m |-> <<>>, e |-> 0]

\* <<m, e>>: the p-bit value nearest to N / D, for N >= 0 and D > 0
RoundRat(N, D, p) ==
  IF N = <<>> THEN << <<>>, 0 >>
  ELSE
    LET k1 == p - (BitLen(N) - BitLen(D))
        k  == IF Leq(Mul(D, Pow2(p + Max(0 - k1, 0))), Mul(N, Pow2(Max(k1, 0))))
              THEN k1 - 1 ELSE k1
        qr == DivMod(Mul(N, Pow2(Max(k, 0))), Mul(D, Pow2(Max(0 - k, 0))))
        c  == Cmp(Times(qr[2], 2), Mul(D, Pow2(Max(0 - k, 0))))
        up == c > 0 \/ (c = 0 /\ qr[1][1] % 2 = 1)
        m  == IF up THEN Add(qr[1], <<1>>) ELSE qr[1]
    IN IF BitLen(m) > p THEN << Pow2(p - 1), 1 - k >> ELSE << m, 0 - k >>

\* <<m, e>>: the p-bit value nearest to N * 2^x
RoundDy(N, x, p) ==
  IF N = <<>> THEN << <<>>, 0 >>
  ELSE IF BitLen(N) <= p
       THEN << Mul(N, Pow2(p - BitLen(N))), x - (p - BitLen(N)) >>
       ELSE LET r == RoundRat(N, <<1>>, p) IN << r[1], r[2] + x >>

Float(neg, me) == [neg |-> neg /\ me[1] # <<>>, m |-> me[1], e |-> me[2]]

\* (double)k or (float)k
FFromInt(k, p) == Float(k < 0, RoundDy(FromInt(Abs(k)), 0, p))

FMul(x, y, p) == Float(x.neg # y.neg, RoundDy(Mul(x.m, y.m), x.e + y.e, p))

\* x + y for operands of one sign
FAdd(x, y, p) ==
  LET lo == Min(x.e, y.e)
  IN Float(x.neg /\ y.neg,
           RoundDy(Add(Mul(x.m, Pow2(x.e - lo)), Mul(y.m, Pow2(y.e - lo))), lo, p))

\* x / y for y # 0
FDiv(x, y, p) ==
  LET r == RoundRat(x.m, y.m, p)
  IN Float(x.neg # y.neg, << r[1], IF r[1] = <<>> THEN 0 ELSE r[2] + x.e - y.e >>)

\* sqrt(x) for x >= 0
FSqrt(x, p) ==
  IF x.m = <<>> THEN FZero
  ELSE LET t  == IF (x.e - p) % 2 = 0 THEN p ELSE p - 1
           sr == SqrtRem(Mul(x.m, Pow2(t)))
           m  == IF Cmp(sr[2], sr[1]) > 0 THEN Add(sr[1], <<1>>) ELSE sr[1]
       IN Float(FALSE, << m, (x.e - t) \div 2 >>)

(***************************************************************************)
(* Program constants                                                       *)
(***************************************************************************)
INT16_MIN == -32768
INT16_MAX == 32767
\* (mutation) the divisor is the largest sample
PcmScaleOff == INT16_MAX

\* the divisor 32768.0f of vox_pcm_to_float32
PcmScale == 32768
\* significand widths of `double` and `float`
DoubleBits == 53
FloatBits == 24

(***************************************************************************)
(* Bounds of the model                                                     *)
(***************************************************************************)
\* longest explicit sample sequence
MaxLen == 2
\* calls made on a buffer when every short buffer is tried
MaxCalls == 1
\* calls one caller makes in succession on a buffer
SeqCalls == 3
\* cells of an output buffer beyond the samples' count
OutSlack == 1

Threads == {1, 2}
SampleVals == {INT16_MIN, -1, 0, 3, INT16_MAX}
SeqsOver(S, k) == UNION {[1..j -> S] : j \in 0..k}

VARIABLES
  samples,  \* the int16 input buffer: `pad` copies of `fill`, then `tail`
  out,      \* out[t]: the float output buffer thread t passes
  pc,       \* pc[t]: where thread t is in its call
  n,        \* n[t]: the count argument of thread t's call
  i,        \* i[t]: the loop index
  sum,      \* the accumulator `sum` of vox_rms_int16, one slot per frame
  reads,    \* reads[t]: sample reads of the call so far, [cnt, max]
  writes,   \* writes[t]: the indices of out written by the call so far
  divs,     \* divs[t]: divisions performed by the call so far
  out0,     \* out0[t]: out[t] as it was when the call began
  in0,      \* in0[t]: samples as it was when the call began
  log,      \* log[t]: the calls thread t has completed, oldest first
  todo      \* todo[t]: the calls thread t has yet to make

vars == <<samples, out, pc, n, i, sum, reads, writes, divs, out0, in0, log, todo>>

BufLen == samples.pad + Len(samples.tail)

\* element j, counted from 0, of buffer b
SampleOf(b, j) == IF j < b.pad THEN b.fill ELSE b.tail[j - b.pad + 1]

\* the read `samples[j]`
ReadSample(j) == SampleOf(samples, j)

NoReads == [cnt |-> 0, max |-> -1]
ReadAt(r, j) == [cnt |-> r.cnt + 1, max |-> Max(r.max, j)]

\* the counts a caller passes: invalid ones, and every prefix from `pad` on
Counts == {-1, 0} \cup {samples.pad + j : j \in 0..Len(samples.tail)}

\* prior contents of an output cell: 1.0f, which no conversion stores
Garbage == FFromInt(1, FloatBits)

InitWith(bufs, calls) ==
  /\ samples \in bufs
  /\ out = [t \in Threads |-> [j \in 1..(Len(samples.tail) + OutSlack) |-> Garbage]]
  /\ pc = [t \in Threads |-> "idle"]
  /\ n = [t \in Threads |-> 0]
  /\ i = [t \in Threads |-> 0]
  /\ sum = [t \in Threads |-> FZero]
  /\ reads = [t \in Threads |-> NoReads]
  /\ writes = [t \in Threads |-> {}]
  /\ divs = [t \in Threads |-> 0]
  /\ out0 = out
  /\ in0 = [t \in Threads |-> samples]
  /\ log = [t \in Threads |-> <<>>]
  /\ todo = calls

\* (mutation) `sum` declared static: one slot for every call
AccStatic(t) == 1

\* the frame slot holding a call's `sum`: an automatic variable, one per call
Acc(t) == t

\* (mutation) the accumulator keeps what the previous call left in it
SumKept(old) == old

\* `double sum = 0.0;`
SumInit(old) == FZero

\* (mutation) the test lets a zero count through
EarlyOutStrict(k) == k < 0

\* the test `n <= 0` both routines begin with
EarlyOut(k) == k <= 0

\* (mutation) the loops skip sample 0
LoopStartOne == 0 + 1

\* `int i = 0` of both loops
LoopStart == 0

\* the loop test `i < n` of both routines
LoopCond(j, k) == j < k

\* the divisor `(double)n` of the mean
Divisor(k) == FFromInt(k, DoubleBits)

\* (mutation) the mean square is returned as it is
RootOmitted(q) == q

\* `sqrt(...)` of the mean
Root(q) == FSqrt(q, DoubleBits)

\* (mutation) `s` declared float: the square is rounded to 24 bits
SquareInFloat(s) ==
  LET f == Float(s.neg, RoundDy(s.m, s.e, FloatBits))
      p == FMul(f, f, FloatBits)
  IN Float(p.neg, RoundDy(p.m, p.e, DoubleBits))

\* `s * s`, for `double s`
Square(s) == FMul(s, s, DoubleBits)

\* (mutation) the store lands one cell further on
OutCellNext(j) == j + 2

\* the cell `out[i]` the converter stores to (sequences count from 1)
OutCell(j) == j + 1

\* (mutation) the symmetric scaling by 32767.0f
ConvertSymmetric(s) ==
  FDiv(FFromInt(s, FloatBits), FFromInt(INT16_MAX, FloatBits), FloatBits)

\* `(float)samples[i] / 32768.0f`
Convert(s) ==
  FDiv(FFromInt(s, FloatBits), FFromInt(PcmScale, FloatBits), FloatBits)

\* a call begins: bind the arguments
Call(t, k, entry) ==
  /\ pc[t] = "idle"
  /\ todo[t] > 0
  /\ todo' = [todo EXCEPT ![t] = @ - 1]
  /\ pc' = [pc EXCEPT ![t] = entry]
  /\ n' = [n EXCEPT ![t] = k]
  /\ reads' = [reads EXCEPT ![t] = NoReads]
  /\ writes' = [writes EXCEPT ![t] = {}]
  /\ divs' = [divs EXCEPT ![t] = 0]
  /\ out0' = [out0 EXCEPT ![t] = out[t]]
  /\ in0' = [in0 EXCEPT ![t] = samples]
  /\ UNCHANGED <<samples, out, i, sum, log>>

\* a call returns: the caller sees the value and the buffers
Return(t, f, value, quotient, nd) ==
  /\ pc' = [pc EXCEPT ![t] = "idle"]
  /\ log' = [log EXCEPT ![t] = Append(@,
               [fn |-> f, n |-> n[t], ret |-> value, quot |-> quotient,
                sum |-> sum[Acc(t)], reads |-> reads[t], writes |-> writes[t],
                divs |-> nd, before |-> out0[t], after |-> out[t],
                input |-> in0[t], inputAfter |-> samples])]
  /\ UNCHANGED todo

CallRms(t, k) == Call(t, k, "rms_entry")

\* `if (n <= 0) return 0.0; double sum = 0.0;` and `int i = 0`
RmsEntry(t) ==
  /\ pc[t] = "rms_entry"
  /\ IF EarlyOut(n[t])
     THEN /\ Return(t, "rms", FZero, FZero, divs[t])
          /\ UNCHANGED <<i, sum>>
     ELSE /\ pc' = [pc EXCEPT ![t] = "rms_loop"]
          /\ sum' = [sum EXCEPT ![Acc(t)] = SumInit(@)]
          /\ i' = [i EXCEPT ![t] = LoopStart]
          /\ UNCHANGED <<log, todo>>
  /\ UNCHANGED <<samples, out, n, reads, writes, divs, out0, in0>>

\* one iteration: `double s = (double)samples[i]; sum += s * s;` and `i++`
RmsLoop(t) ==
  /\ pc[t] = "rms_loop"
  /\ LoopCond(i[t], n[t])
  /\ i[t] >= samples.pad
  /\ LET s == FFromInt(ReadSample(i[t]), DoubleBits)
     IN sum' = [sum EXCEPT ![Acc(t)] = FAdd(@, Square(s), DoubleBits)]
  /\ reads' = [reads EXCEPT ![t] = ReadAt(@, i[t])]
  /\ i' = [i EXCEPT ![t] = @ + 1]
  /\ UNCHANGED <<samples, out, pc, n, writes, divs, out0, in0, log, todo>>

\* the first `pad` iterations, over `pad` equal samples, taken together.
\* While a partial sum stays within 2^DoubleBits every addition of the
\* integer s * s is exact, so the iterations leave pad * fill^2 in `sum`.
RmsLoopRun(t) ==
  /\ pc[t] = "rms_loop"
  /\ i[t] = 0
  /\ 0 < samples.pad
  /\ LoopCond(samples.pad - 1, n[t])
  /\ LET total == Mul(FromInt(samples.pad), FromInt(samples.fill * samples.fill))
     IN /\ Leq(total, Pow2(DoubleBits))
        /\ sum[Acc(t)] = FZero
        /\ sum' = [sum EXCEPT ![Acc(t)] = Float(FALSE, RoundDy(total, 0, DoubleBits))]
  /\ reads' = [reads EXCEPT ![t] = [cnt |-> samples.pad, max |-> samples.pad - 1]]
  /\ i' = [i EXCEPT ![t] = samples.pad]
  /\ UNCHANGED <<samples, out, pc, n, writes, divs, out0, in0, log, todo>>

\* `return sqrt(sum / (double)n);`
RmsReturn(t) ==
  /\ pc[t] = "rms_loop"
  /\ ~LoopCond(i[t], n[t])
  /\ LET q == FDiv(sum[Acc(t)], Divisor(n[t]), DoubleBits)
     IN Return(t, "rms", Root(q), q, divs[t] + 1)
  /\ divs' = [divs EXCEPT ![t] = @ + 1]
  /\ UNCHANGED <<samples, out, n, i, sum, reads, writes, out0, in0>>

CallPcm(t, k) == Call(t, k, "pcm_entry")

\* (mutation) the first store is made before any test of the count
PcmEntryStoresFirst(t) ==
  /\ pc[t] = "pcm_entry"
  /\ pc' = [pc EXCEPT ![t] = "pcm_loop"]
  /\ i' = [i EXCEPT ![t] = LoopStart]
  /\ out' = [out EXCEPT ![t][OutCell(LoopStart)] = FZero]
  /\ writes' = [writes EXCEPT ![t] = @ \cup {OutCell(LoopStart)}]
  /\ UNCHANGED <<samples, n, sum, reads, divs, out0, in0, log, todo>>

\* `if (n <= 0) return;` and `int i = 0`
PcmEntry(t) ==
  /\ pc[t] = "pcm_entry"
  /\ IF EarlyOut(n[t])
     THEN /\ Return(t, "pcm", FZero, FZero, divs[t])
          /\ UNCHANGED i
     ELSE /\ pc' = [pc EXCEPT ![t] = "pcm_loop"]
          /\ i' = [i EXCEPT ![t] = LoopStart]
          /\ UNCHANGED <<log, todo>>
  /\ UNCHANGED <<samples, out, n, sum, reads, writes, divs, out0, in0>>

\* one iteration: `out[i] = (float)samples[i] / 32768.0f;` and `i++`
PcmLoop(t) ==
  /\ pc[t] = "pcm_loop"
  /\ LoopCond(i[t], n[t])
  /\ out' = [out EXCEPT ![t][OutCell(i[t])] = Convert(ReadSample(i[t]))]
  /\ reads' = [reads EXCEPT ![t] = ReadAt(@, i[t])]
  /\ writes' = [writes EXCEPT ![t] = @ \cup {OutCell(i[t])}]
  /\ divs' = [divs EXCEPT ![t] = @ + 1]
  /\ i' = [i EXCEPT ![t] = @ + 1]
  /\ UNCHANGED <<samples, pc, n, sum, out0, in0, log, todo>>

\* the loop ends and the routine returns
PcmReturn(t) ==
  /\ pc[t] = "pcm_loop"
  /\ ~LoopCond(i[t], n[t])
  /\ Return(t, "pcm", FZero, FZero, divs[t])
  /\ UNCHANGED <<samples, out, n, i, sum, reads, writes, divs, out0, in0>>

\* vox_rms_int16 run from entry to return with no other step between:
\* the accumulator after k iterations, and the value returned
RECURSIVE SumAlone(_, _)
SumAlone(b, k) ==
  IF k = LoopStart THEN SumInit(FZero)
  ELSE LET s == FFromInt(SampleOf(b, k - 1), DoubleBits)
       IN FAdd(SumAlone(b, k - 1), Square(s), DoubleBits)
RmsAlone(b, k) ==
  IF EarlyOut(k) THEN FZero
  ELSE Root(FDiv(SumAlone(b, k), Divisor(k), DoubleBits))

\* vox_pcm_to_float32 run likewise: the output buffer it leaves
PcmAlone(b, before, k) ==
  [j \in 1..Len(before) |->
     IF ~EarlyOut(k) /\ LoopCond(j - 1, k) THEN Convert(SampleOf(b, j - 1))
     ELSE before[j]]

RmsStep(t) ==
  \/ \E k \in Counts : CallRms(t, k)
  \/ RmsEntry(t)
  \/ RmsLoop(t)
  \/ RmsReturn(t)

PcmStep(t) ==
  \/ \E k \in Counts : CallPcm(t, k)
  \/ PcmEntry(t)
  \/ PcmLoop(t)
  \/ PcmReturn(t)

\* thread 1 alone makes k calls
OneCaller(k) == [t \in Threads |-> IF t = 1 THEN k ELSE 0]

\* one caller, every short buffer
Short(S) == {[fill |-> 0, pad |-> 0, tail |-> s] : s \in SeqsOver(S, MaxLen)}
Init == InitWith(Short(SampleVals), OneCaller(MaxCalls))
Next == \E t \in Threads : RmsStep(t) \/ PcmStep(t)
Spec == Init /\ [][Next]_vars

\* one caller, calls of either routine in succession on one buffer
SeqBufs ==
  {[fill |-> 0, pad |-> 0, tail |-> s] : s \in {<<3, INT16_MIN>>, <<INT16_MAX, -1>>}}
InitSeq == InitWith(SeqBufs, OneCaller(SeqCalls))
SpecSeq == InitSeq /\ [][Next]_vars

\* two callers at once, their steps interleaved, each with its own output
\* buffer and both reading the one input buffer
ConcCalls == 1
ConcBufs == {[fill |-> 0, pad |-> 0, tail |-> <<3, INT16_MIN>>]}
InitConc == InitWith(ConcBufs, [t \in Threads |-> ConcCalls])
SpecConc == InitConc /\ [][Next]_vars

\* vox_rms_int16 alone, on short buffers and on long ones: `pad` equal
\* samples whose squares sum to at most 2^DoubleBits, then a short tail
LongVals == {INT16_MIN, INT16_MAX}
\* the most samples of value INT16_MAX whose squares sum to at most 2^53
MaxExactRun == ToInt(DivMod(Pow2(DoubleBits), FromInt(INT16_MAX * INT16_MAX))[1])
Pads == {2^23 - 1, 2^23, MaxExactRun - 1, MaxExactRun}
Long ==
  {b \in [fill : LongVals, pad : Pads, tail : SeqsOver(LongVals, MaxLen)] :
     Leq(Mul(FromInt(b.pad), FromInt(b.fill * b.fill)), Pow2(DoubleBits))}
InitLong == InitWith(Short(SampleVals) \cup Long, OneCaller(MaxCalls))
NextLong == RmsStep(1) \/ RmsLoopRun(1)
SpecLong == InitLong /\ [][NextLong]_vars

(***************************************************************************)
(* What the claims are stated in: exact rational comparisons, the exact    *)
(* sum of squares, and the calls completed so far.                         *)
(***************************************************************************)
\* the sign of m * 2^e - N / D
RatCmp(m, e, N, D) ==
  Cmp(Mul(Mul(m, Pow2(Max(e, 0))), D), Mul(N, Pow2(Max(0 - e, 0))))

\* x denotes the natural number N
ValueIs(x, N) == ~x.neg /\ RatCmp(x.m, x.e, N, <<1>>) = 0

\* x is a value of the p-bit format
IsFloat(x, p) == x.m = <<>> \/ BitLen(x.m) = p

\* q is within half a unit in its last place of N / D, for N >= 0
NearestQuot(q, N, D) ==
  IF N = <<>> THEN q.m = <<>>
  ELSE /\ q.m # <<>> /\ ~q.neg
       /\ RatCmp(Sub(Times(q.m, 2), <<1>>), q.e - 1, N, D) <= 0
       /\ RatCmp(Add(Times(q.m, 2), <<1>>), q.e - 1, N, D) >= 0

\* r is within half a unit in its last place of the square root of q >= 0
NearestRoot(r, q) ==
  IF q.m = <<>> THEN r.m = <<>>
  ELSE LET lo == Sub(Times(r.m, 2), <<1>>)
           hi == Add(Times(r.m, 2), <<1>>)
       IN /\ r.m # <<>> /\ ~r.neg
          /\ RatCmp(Mul(lo, lo), 2 * r.e - 2 - q.e, q.m, <<1>>) <= 0
          /\ RatCmp(Mul(hi, hi), 2 * r.e - 2 - q.e, q.m, <<1>>) >= 0

\* the exact sum of the squares of the first k elements of s
RECURSIVE SeqSq(_, _)
SeqSq(s, k) == IF k = 0 THEN <<>> ELSE Add(SeqSq(s, k - 1), FromInt(s[k] * s[k]))

\* the exact sum of the squares of the first k samples of buffer b
ExactSum(b, k) ==
  Add(Mul(FromInt(Min(k, b.pad)), FromInt(b.fill * b.fill)),
      SeqSq(b.tail, Max(k - b.pad, 0)))

\* the absolute values of the first k >= 1 samples of buffer b
AbsVals(b, k) ==
  (IF b.pad > 0 THEN {Abs(b.fill)} ELSE {})
    \cup {Abs(b.tail[j]) : j \in 1..Max(k - b.pad, 0)}
MinAbs(b, k) == CHOOSE v \in AbsVals(b, k) : \A w \in AbsVals(b, k) : v <= w
MaxAbs(b, k) == CHOOSE v \in AbsVals(b, k) : \A w \in AbsVals(b, k) : v >= w

Calls == UNION {{log[t][j] : j \in 1..Len(log[t])} : t \in Threads}
RmsCalls == {c \in Calls : c.fn = "rms"}
PcmCalls == {c \in Calls : c.fn = "pcm"}

(***************************************************************************)
(* C1                                                                      *)
(***************************************************************************)
\* C1 as stated: for n >= 1 the value r returned by vox_rms_int16 is
\* non-negative and r * r * n equals the sum of the squares of the first n
\* samples.
C1_Original ==
  \A c \in RmsCalls : c.n >= 1 =>
    /\ ~c.ret.neg
    /\ RatCmp(Mul(Mul(c.ret.m, c.ret.m), FromInt(c.n)), 2 * c.ret.e,
              ExactSum(c.input, c.n), <<1>>) = 0

\* C1 as amended: for n >= 1 the loop reads exactly samples 0..n-1, once
\* each; the accumulator it leaves is the exact sum of their squares
\* whenever that sum is at most 2^53 (so for every n <= 2^23); and the
\* value returned is a non-negative double within half a unit in the last
\* place of the square root of the quotient, itself a double within half a
\* unit in the last place of accumulator / n.
C1_RoundedRootOfMeanSquare ==
  \A c \in RmsCalls : c.n >= 1 =>
    /\ c.reads = [cnt |-> c.n, max |-> c.n - 1]
    /\ Leq(ExactSum(c.input, c.n), Pow2(53)) => ValueIs(c.sum, ExactSum(c.input, c.n))
    /\ IsFloat(c.sum, 53) /\ IsFloat(c.quot, 53) /\ IsFloat(c.ret, 53)
    /\ ~c.sum.neg /\ ~c.ret.neg
    /\ NearestQuot(c.quot, Mul(c.sum.m, Pow2(Max(c.sum.e, 0))),
                   Mul(FromInt(c.n), Pow2(Max(0 - c.sum.e, 0))))
    /\ NearestRoot(c.ret, c.quot)

\* a call over two samples whose mean square, 5, has an irrational root
C1_Witness ==
  \E c \in RmsCalls :
    c.n = 2 /\ ValueIs(c.sum, FromInt(10)) /\ ValueIs(c.quot, FromInt(5))

(***************************************************************************)
(* C9                                                                      *)
(***************************************************************************)
\* C9 as stated: every partial sum in the accumulator is the exact sum of
\* the squares read so far and never exceeds 2^53, for every n up to
\* 2^31 - 1.
C9_Original ==
  \A t \in Threads : pc[t] = "rms_loop" =>
    /\ Leq(ExactSum(samples, i[t]), Pow2(53))
    /\ ValueIs(sum[Acc(t)], ExactSum(samples, i[t]))

\* C9 as amended: for the first 2^23 steps (so for every n <= 2^23) every
\* partial sum in the accumulator is the exact sum of the squares read so
\* far and is at most 2^53.
C9_ExactThrough2e23 ==
  \A t \in Threads : pc[t] = "rms_loop" /\ i[t] <= 2^23 =>
    /\ Leq(ExactSum(samples, i[t]), Pow2(53))
    /\ ValueIs(sum[Acc(t)], ExactSum(samples, i[t]))

\* 2^23 samples of -32768 read: the accumulator holds exactly 2^53
C9_Witness ==
  \E t \in Threads :
    /\ pc[t] = "rms_loop" /\ i[t] = 2^23 /\ reads[t].cnt = 2^23
    /\ ValueIs(sum[Acc(t)], Pow2(53))

(***************************************************************************)
(* C10                                                                     *)
(***************************************************************************)
\* min|S[j]| <= r <= max|S[j]| <= 32768 over the first k samples
RmsWithinRange(c) ==
  /\ ~c.ret.neg
  /\ RatCmp(c.ret.m, c.ret.e, FromInt(MinAbs(c.input, c.n)), <<1>>) >= 0
  /\ RatCmp(c.ret.m, c.ret.e, FromInt(MaxAbs(c.input, c.n)), <<1>>) <= 0
  /\ MaxAbs(c.input, c.n) <= 32768

IsScaled(v, s) ==
  /\ v.neg = (s < 0)
  /\ RatCmp(v.m, v.e, FromInt(Abs(s)), FromInt(32768)) = 0

\* C2: after vox_pcm_to_float32(S, out, n) returns, out[j] is the float
\* S[j] / 32768 exactly, for every j in 0..n-1.
C2_ExactQuotient ==
  \A c \in PcmCalls : \A j \in 0..(c.n - 1) :
    /\ j + 1 <= Len(c.after)
    /\ IsFloat(c.after[j + 1], 24)
    /\ IsScaled(c.after[j + 1], SampleOf(c.input, j))

\* a call that converted two samples, the second not a power of two
C2_Witness ==
  \E c \in PcmCalls :
    c.n = 2 /\ SampleOf(c.input, 1) = 3 /\ c.writes = {1, 2}

(***************************************************************************)
(* C3                                                                      *)
(***************************************************************************)
\* C3: vox_rms_int16 with n <= 0 returns 0.0 and has read no sample and
\* divided nothing, whatever the buffer holds.
C3_NonPositiveCountIsZero ==
  \A c \in RmsCalls : c.n <= 0 =>
    c.ret = FZero /\ c.reads = NoReads /\ c.divs = 0

\* a negative count on a buffer that holds samples
C3_Witness == \E c \in RmsCalls : c.n < 0 /\ Len(c.input.tail) = 2

(***************************************************************************)
(* C4                                                                      *)
(***************************************************************************)
\* C4: vox_pcm_to_float32 with n <= 0 returns having written no cell of
\* out and read no sample: out is as it was before the call.
C4_NonPositiveCountIsNoOp ==
  \A c \in PcmCalls : c.n <= 0 =>
    c.after = c.before /\ c.writes = {} /\ c.reads = NoReads

\* a negative count on an output buffer whose cells hold 1.0f
C4_Witness ==
  \E c \in PcmCalls :
    c.n < 0 /\ Len(c.before) >= 2 /\ c.before[1] = Garbage

(***************************************************************************)
(* C5                                                                      *)
(***************************************************************************)
\* C5: every value v written for a sample s satisfies -1 <= v < 1, with
\* v = -1 exactly when s = -32768, and v = 32767/32768, the largest value
\* written, when s = 32767.
C5_HalfOpenRange ==
  \A c \in PcmCalls : \A j \in 0..(c.n - 1) :
    LET v == c.after[j + 1]
        s == SampleOf(c.input, j)
        one == RatCmp(v.m, v.e, <<1>>, <<1>>)
        top == RatCmp(v.m, v.e, FromInt(32767), FromInt(32768))
    IN /\ v.neg => one <= 0
       /\ ~v.neg => one < 0
       /\ (v.neg /\ one = 0) <=> s = -32768
       /\ ~v.neg => top <= 0
       /\ s = 32767 => ~v.neg /\ top = 0

\* one call that converted both -32768 and 32767
C5_Witness ==
  \E c \in PcmCalls :
    c.n = 2 /\ {SampleOf(c.input, 0), SampleOf(c.input, 1)} = {-32768, 32767}

(***************************************************************************)
(* C6                                                                      *)
(***************************************************************************)
\* C6: a call leaves every sample as it was; vox_rms_int16 leaves every
\* cell of out as it was; vox_pcm_to_float32 writes only out[0..n-1], so
\* every out[j] with j >= n is as it was.
C6_Frame ==
  \A c \in Calls :
    /\ c.inputAfter = c.input
    /\ Len(c.after) = Len(c.before)
    /\ c.fn = "rms" => c.after = c.before /\ c.writes = {}
    /\ c.fn = "pcm" =>
         /\ c.writes \subseteq 1..Max(c.n, 0)
         /\ \A j \in 1..Len(c.after) : j > c.n => c.after[j] = c.before[j]

\* a conversion that changed out[0] and left the cell beyond n
C6_Witness ==
  \E c \in PcmCalls :
    /\ c.n >= 1 /\ c.n < Len(c.after)
    /\ c.after[1] # c.before[1]
    /\ c.after[c.n + 1] = Garbage

(***************************************************************************)
(* C7                                                                      *)
(***************************************************************************)
\* what belongs to thread t alone
Private(t) ==
  <<out[t], pc[t], n[t], i[t], sum[t], reads[t], writes[t], divs[t],
    out0[t], in0[t], log[t], todo[t]>>

\* what vox_rms_int16 returns run alone, for each buffer and count of
\* SpecConc: the triples <<buffer, count, value>>
RmsAloneConc ==
  UNION {{<<b, k, RmsAlone(b, k)>> : k \in -1..Len(b.tail)} : b \in ConcBufs}

\* C7: with the steps of two calls interleaved in any order over one
\* input buffer and separate output buffers, each call returns (and
\* leaves in its output buffer) what it does run alone; no step changes
\* the input buffer or what belongs to two threads.
C7_InterleavedAsAlone ==
  /\ [](\A c \in Calls :
          /\ c.fn = "rms" => <<c.input, c.n, c.ret>> \in RmsAloneConc /\ c.after = c.before
          /\ c.fn = "pcm" => c.after = PcmAlone(c.input, c.before, c.n))
  /\ [][/\ samples' = samples
        /\ \A t \in Threads, u \in Threads :
             t # u => Private(t)' = Private(t) \/ Private(u)' = Private(u)]_vars

\* both threads inside the loop of vox_rms_int16 at once, one iteration
\* done each, with different counts
C7_Witness ==
  /\ pc[1] = "rms_loop" /\ pc[2] = "rms_loop"
  /\ i[1] = 1 /\ i[2] = 1 /\ n[1] = 2 /\ n[2] = 1
  /\ sum[1] # FZero

(***************************************************************************)
(* C8                                                                      *)
(***************************************************************************)
\* C8: two calls of one routine with the same count on the same input
\* give the same output: vox_rms_int16 returns the same value, and
\* vox_pcm_to_float32 leaves the same out[0..n-1], whatever out held
\* before and whatever was called in between.
C8_SameInputSameOutput ==
  \A t \in Threads : \A a \in 1..Len(log[t]) : \A b \in 1..Len(log[t]) :
    LET x == log[t][a]
        y == log[t][b]
    IN (a < b /\ x.fn = y.fn /\ x.n = y.n /\ x.input = y.input) =>
         /\ x.ret = y.ret
         /\ x.fn = "pcm" => \A j \in 1..x.n : x.after[j] = y.after[j]

\* vox_pcm_to_float32 called twice over two samples with a conversion of
\* one sample in between, so that out differs before the two calls
C8_Witness ==
  \E t \in Threads :
    /\ Len(log[t]) = 3
    /\ log[t][1].fn = "pcm" /\ log[t][2].fn = "pcm" /\ log[t][3].fn = "pcm"
    /\ log[t][1].n = 2 /\ log[t][2].n = 1 /\ log[t][3].n = 2
    /\ log[t][1].before # log[t][3].before

====
